---- MODULE Spec2Model ----
(***************************************************************************)
(* A model of sdrf_pipelines/openms/openms.py: the conversion of an SDRF   *)
(* table into the OpenMS search-settings table and experimental design.    *)
(*                                                                         *)
(* Strings are TLA+ strings, handled character by character the way the    *)
(* Python string methods and regular expressions of the source handle      *)
(* them.  A table is a sequence of rows; a row is a record of cell         *)
(* strings (the table is read with astype(str), so every cell is a         *)
(* string and a missing cell reads "nan").                                  *)
(***************************************************************************)
EXTENDS Integers, Sequences, FiniteSets, TLC

(***************************************************************************)
(* Python string primitives                                                *)
(***************************************************************************)

\* the characters that occur, in ascending code-point order
Ascii == " $(),-./0123456789:;=ABCDEFGHIJKLMNOPQRSTUVWXYZ[]_abcdefghijklmnopqrstuvwxyz|"

LowerCase == "abcdefghijklmnopqrstuvwxyz"

UpperCase == "ABCDEFGHIJKLMNOPQRSTUVWXYZ"

Ch(s, i) == SubSeq(s, i, i)

\* position of the character c in the string t, 0 when absent
IndexIn(c, t) ==
  IF \E i \in 1..Len(t) : Ch(t, i) = c
  THEN CHOOSE i \in 1..Len(t) : Ch(t, i) = c
  ELSE 0

\* the code-point order of the characters, as a table
OrdTable == [c \in {Ch(Ascii, i) : i \in 1..Len(Ascii)} |-> IndexIn(c, Ascii)]

Ord(c) == OrdTable[c]

\* sub in s
Contains(s, sub) ==
  \E i \in 1..(Len(s) - Len(sub) + 1) : SubSeq(s, i, i + Len(sub) - 1) = sub

StartsAt(s, sub, i) ==
  /\ i + Len(sub) - 1 <= Len(s)
  /\ SubSeq(s, i, i + Len(sub) - 1) = sub

\* s.startswith(prefix)
StartsWith(s, prefix) == StartsAt(s, prefix, 1)

\* the upper-case letter of each lower-case letter, and the reverse
UpperTable ==
  [c \in {Ch(LowerCase, i) : i \in 1..Len(LowerCase)} |-> Ch(UpperCase, IndexIn(c, LowerCase))]

LowerTable ==
  [c \in {Ch(UpperCase, i) : i \in 1..Len(UpperCase)} |-> Ch(LowerCase, IndexIn(c, UpperCase))]

UpperCh(c) == IF c \in DOMAIN UpperTable THEN UpperTable[c] ELSE c

LowerCh(c) == IF c \in DOMAIN LowerTable THEN LowerTable[c] ELSE c

RECURSIVE UpperFrom(_, _)
\* s[i:].upper(), positions counted from 1
UpperFrom(s, i) == IF i > Len(s) THEN "" ELSE UpperCh(Ch(s, i)) \o UpperFrom(s, i + 1)

\* s.upper()
Upper(s) == UpperFrom(s, 1)

RECURSIVE LowerFrom(_, _)
\* s[i:].lower(), positions counted from 1
LowerFrom(s, i) == IF i > Len(s) THEN "" ELSE LowerCh(Ch(s, i)) \o LowerFrom(s, i + 1)

\* s.lower()
Lower(s) == LowerFrom(s, 1)

\* s.capitalize(): first character upper case, the rest lower case
Capitalize(s) == IF s = "" THEN "" ELSE UpperCh(Ch(s, 1)) \o LowerFrom(s, 2)

RECURSIVE Split(_, _)
\* s.split(sep) for a one-character separator
Split(s, sep) ==
  IF ~Contains(s, sep) THEN <<s>>
  ELSE LET i == CHOOSE k \in 1..Len(s) :
                  /\ Ch(s, k) = sep
                  /\ \A j \in 1..(k - 1) : Ch(s, j) # sep
       IN  <<SubSeq(s, 1, i - 1)>> \o Split(SubSeq(s, i + 1, Len(s)), sep)

RECURSIVE Join(_, _)
\* sep.join(parts)
Join(sep, parts) ==
  IF parts = <<>> THEN ""
  ELSE IF Len(parts) = 1 THEN parts[1]
  ELSE parts[1] \o sep \o Join(sep, Tail(parts))

RECURSIVE Replace(_, _, _)
\* s.replace(old, new), old not empty
Replace(s, old, new) ==
  IF s = "" THEN ""
  ELSE IF StartsAt(s, old, 1)
  THEN new \o Replace(SubSeq(s, Len(old) + 1, Len(s)), old, new)
  ELSE Ch(s, 1) \o Replace(SubSeq(s, 2, Len(s)), old, new)

RECURSIVE StrLess(_, _)
\* a < b on Python strings (code-point order)
StrLess(a, b) ==
  IF b = "" THEN FALSE
  ELSE IF a = "" THEN TRUE
  ELSE IF Ch(a, 1) # Ch(b, 1) THEN Ord(Ch(a, 1)) < Ord(Ch(b, 1))
  ELSE StrLess(SubSeq(a, 2, Len(a)), SubSeq(b, 2, Len(b)))

RECURSIVE Insert(_, _)
Insert(x, sorted) ==
  IF sorted = <<>> THEN <<x>>
  ELSE IF StrLess(x, sorted[1]) THEN <<x>> \o sorted
  ELSE <<sorted[1]>> \o Insert(x, Tail(sorted))

RECURSIVE Sort(_)
\* list.sort() on a list of strings (stable; equal strings are identical)
Sort(l) == IF l = <<>> THEN <<>> ELSE Insert(l[Len(l)], Sort(SubSeq(l, 1, Len(l) - 1)))

Digits == "0123456789"

IsInt(s) == s # "" /\ \A i \in 1..Len(s) : IndexIn(Ch(s, i), Digits) # 0

RECURSIVE ParseInt(_)
\* int(s) for a string of decimal digits
ParseInt(s) ==
  IF s = "" THEN 0
  ELSE 10 * ParseInt(SubSeq(s, 1, Len(s) - 1)) + (IndexIn(Ch(s, Len(s)), Digits) - 1)

\* a regular-expression match: found or None, and group(1)
NoMatch == [found |-> FALSE, group |-> ""]

RECURSIVE FirstTag(_, _, _)
\* the leftmost position from i on where key starts with at least one
\* character after it, 0 when there is none
FirstTag(key, m, i) ==
  IF i + Len(key) > Len(m) THEN 0
  ELSE IF StartsAt(m, key, i) THEN i
  ELSE FirstTag(key, m, i + 1)

RECURSIVE GroupEnd(_, _)
\* the first position from e on that is followed by ";" or is the last
GroupEnd(m, e) ==
  IF e >= Len(m) THEN Len(m)
  ELSE IF Ch(m, e + 1) = ";" THEN e
  ELSE GroupEnd(m, e + 1)

\* the match that starts at position i, if any
TagAt(key, m, i) ==
  IF i = 0 THEN NoMatch
  ELSE [found |-> TRUE, group |-> SubSeq(m, i + Len(key), GroupEnd(m, i + Len(key)))]

\* re.search(key + "(.+?)(;|$)", m): the leftmost occurrence of key that has
\* at least one character after it; the group runs lazily up to the first
\* position followed by ";" or by the end of the string
ReSearchTag(key, m) == TagAt(key, m, FirstTag(key, m, 1))

\* re.search(key + "(.+?)[;$]", m) is not None: inside the brackets "$" is a
\* literal character, so the group must be followed by ";" or "$" in the text
ReSearchTagClass(key, m) ==
  \E i \in 1..Len(m) :
    /\ StartsAt(m, key, i)
    /\ \E e \in (i + Len(key))..(Len(m) - 1) : Ch(m, e + 1) \in {";", "$"}

(***************************************************************************)
(* Python dicts, kept in insertion order as sequences of [k, v] entries    *)
(***************************************************************************)

DictHas(d, key) == \E i \in 1..Len(d) : d[i].k = key

DictGet(d, key) == d[CHOOSE i \in 1..Len(d) : d[i].k = key].v

\* d[key] = val
DictSet(d, key, val) ==
  IF DictHas(d, key)
  THEN [i \in 1..Len(d) |-> IF d[i].k = key THEN [k |-> key, v |-> val] ELSE d[i]]
  ELSE Append(d, [k |-> key, v |-> val])

\* list(d.values())
DictValues(d) == [i \in 1..Len(d) |-> d[i].v]

\* self.warnings.get(msg, 0)
WarnCount(warnings, msg) == IF DictHas(warnings, msg) THEN DictGet(warnings, msg) ELSE 0

\* self.warnings[msg] = self.warnings.get(msg, 0) + 1
Warn(warnings, msg) == DictSet(warnings, msg, WarnCount(warnings, msg) + 1)

W_NoTA == "Warning no TA= specified. Setting to N-term or C-term if possible."

W_Skip == "Reassignment not possible. Skipping."

W_PcInvalid == "Invalid precursor mass tolerance set. Assuming 10 ppm."

W_PcMissing == "No precursor mass tolerance set. Assuming 10 ppm."

W_FragInvalid == "Invalid fragment mass tolerance set. Assuming 20 ppm."

W_FragMissing == "No fragment mass tolerance set. Assuming 20 ppm."

W_DissMissing == "No dissociation method provided. Assuming HCD."

W_Dummy == "No factors specified. Adding dummy factor used as condition."

W_CharAsFactor == "No factors specified. Adding non-redundant characteristics as factor. Will be used as condition."

(***************************************************************************)
(* openms_ify_mods                                                         *)
(***************************************************************************)

\* The name-lookup collaborator (UnimodDatabase.get_by_accession followed by
\* get_name): the canonical name of an accession, "" standing for None.
UnimodName(accession) ==
  CASE accession = "UNIMOD:1" -> "Acetyl"
    [] accession = "UNIMOD:4" -> "Carbamidomethyl"
    [] accession = "UNIMOD:21" -> "Phospho"
    [] accession = "UNIMOD:35" -> "Oxidation"
    [] OTHER -> ""

\* the "AC=UNIMOD" test of an annotation
IsUnimod(m) == Contains(m, "AC=UNIMOD") \/ Contains(m, "AC=Unimod")

\* name: the capitalized NT value, overridden by the database's name
ModName(m) ==
  LET accession == ReSearchTag("AC=", m).group
  IN  IF UnimodName(accession) # "" THEN UnimodName(accession)
      ELSE Capitalize(ReSearchTag("NT=", m).group)

\* pp: the PP value, "Anywhere" when the first search finds none
ModPosition(m) ==
  IF ~ReSearchTagClass("PP=", m) THEN "Anywhere" ELSE ReSearchTag("PP=", m).group

\* the site test of the "Any N-term"/"Any C-term" branch, a the site and aa
\* the whole list of sites: the list never equals a string
AnySiteUnspecific(a, aa) == a = "C-term" \/ aa = "N-term"

\* the descriptors appended for one annotation with name, pp and sites aa
Expand(name, pp, aa) ==
  IF pp = "Protein N-term" \/ pp = "Protein C-term"
  THEN [i \in 1..Len(aa) |->
          IF aa[i] = "C-term" \/ aa[i] = "N-term"
          THEN name \o " (" \o pp \o ")"
          ELSE name \o " (" \o pp \o " " \o aa[i] \o ")"]
  ELSE IF pp = "Any N-term" \/ pp = "Any C-term"
  THEN LET p2 == Replace(pp, "Any ", "")
       IN  [i \in 1..Len(aa) |->
              IF AnySiteUnspecific(aa[i], aa)
              THEN name \o " (" \o p2 \o ")"
              ELSE name \o " (" \o p2 \o " " \o aa[i] \o ")"]
  ELSE [i \in 1..Len(aa) |-> name \o " (" \o aa[i] \o ")"]

\* The local variable ta after the TA block of one loop iteration: bound to
\* the TA value or to the terminus found in pp, and otherwise left as the
\* previous iteration left it (unbound in the first)
TargetSite(m, pp, prev) ==
  IF ~ReSearchTag("TA=", m).found
  THEN IF Contains(pp, "C-term") THEN [bound |-> TRUE, ta |-> "C-term"]
       ELSE IF Contains(pp, "N-term") THEN [bound |-> TRUE, ta |-> "N-term"]
       ELSE prev
  ELSE [bound |-> TRUE, ta |-> ReSearchTag("TA=", m).group]

\* the warnings counted by the TA block of one loop iteration
TargetSiteWarnings(m, pp, warnings) ==
  IF ~ReSearchTag("TA=", m).found
  THEN IF Contains(pp, "C-term") \/ Contains(pp, "N-term")
       THEN Warn(warnings, W_NoTA)
       ELSE Warn(Warn(warnings, W_NoTA), W_Skip)
  ELSE warnings

\* One iteration of the loop over sdrf_mods.  st is the state of the call:
\* exc the exception raised ("" for none), oms_mods, the local ta, the
\* warning counter.
IfyStep(st, m) ==
  IF st.exc # "" THEN st
  ELSE IF ~IsUnimod(m) THEN [st EXCEPT !.exc = "only UNIMOD modifications supported"]
  ELSE IF ~ReSearchTag("NT=", m).found THEN [st EXCEPT !.exc = "AttributeError"]
  ELSE LET pp == ModPosition(m)
           w2 == TargetSiteWarnings(m, pp, st.warnings)
           t2 == TargetSite(m, pp, st.ta)
       IN  IF ~t2.bound
           THEN [st EXCEPT !.exc = "UnboundLocalError", !.warnings = w2]
           ELSE [exc |-> "",
                 oms_mods |-> st.oms_mods \o Expand(ModName(m), pp, Split(t2.ta, ",")),
                 ta |-> t2,
                 warnings |-> w2]

RECURSIVE IfyLoop(_, _)
IfyLoop(st, sdrf_mods) ==
  IF sdrf_mods = <<>> THEN st ELSE IfyLoop(IfyStep(st, Head(sdrf_mods)), Tail(sdrf_mods))

\* openms_ify_mods(sdrf_mods) called with the warning counter warnings:
\* exc the exception it raises ("" when it returns), value the returned
\* string, warnings the counter after the call
OpenmsIfyMods(sdrf_mods, warnings) ==
  LET st == IfyLoop([exc |-> "", oms_mods |-> <<>>,
                     ta |-> [bound |-> FALSE, ta |-> ""],
                     warnings |-> warnings], sdrf_mods)
  IN  [exc |-> st.exc,
       value |-> IF st.exc = "" THEN Join(",", st.oms_mods) ELSE "",
       warnings |-> st.warnings]

(***************************************************************************)
(* combine_factors_to_conditions and removeRedundantCharacteristics        *)
(***************************************************************************)

\* list(row[cols]): the cells of the row under the columns cols, in order
Cells(row, cols) == [i \in 1..Len(cols) |-> row[cols[i]]]

\* the test that sends combine_factors_to_conditions to its fallback
NoFactors(combined_factors) == combined_factors = ""

\* combine_factors_to_conditions(characteristics_cols, factor_cols, row)
\* called with the warning counter warnings: the returned condition and the
\* counter after the call
CombineFactorsToConditions(characteristics_cols, factor_cols, row, warnings) ==
  LET by_factors == Join("|", Cells(row, factor_cols))
      by_characteristics == Join("|", Cells(row, characteristics_cols))
  IN  IF NoFactors(by_factors)
      THEN IF NoFactors(by_characteristics)
           THEN [value |-> "none", warnings |-> Warn(warnings, W_Dummy)]
           ELSE [value |-> by_characteristics, warnings |-> Warn(warnings, W_CharAsFactor)]
      ELSE [value |-> by_factors, warnings |-> warnings]

\* sdrf[c]: the value sequence of column c over the rows
Column(rows, c) == [i \in 1..Len(rows) |-> rows[i][c]]

\* c_col.equals(f_col)
ColumnEquals(rows, c, f) == Column(rows, c) = Column(rows, f)

\* removeRedundantCharacteristics(characteristics_cols, sdrf, factor_cols):
\* the function returns the pair (characteristics_cols, f), f the variable of
\* its inner loop, which is bound only once that loop has run
RemoveRedundantCharacteristics(characteristics_cols, rows, factor_cols) ==
  LET Redundant(c) == \E i \in 1..Len(factor_cols) : ColumnEquals(rows, c, factor_cols[i])
      Retained(c) == ~Redundant(c)
  IN  IF characteristics_cols = <<>> \/ factor_cols = <<>>
      THEN [exc |-> "UnboundLocalError", cols |-> <<>>, f |-> ""]
      ELSE [exc |-> "",
            cols |-> SelectSeq(characteristics_cols, Retained),
            f |-> factor_cols[Len(factor_cols)]]

(***************************************************************************)
(* openms_convert: the extraction pass over the rows                       *)
(***************************************************************************)

C_Source == "source name"

C_DataFile == "comment[data file]"

C_Uri == "comment[file uri]"

C_Mods == "comment[modification parameters"

C_PcTol == "comment[precursor mass tolerance]"

C_FragTol == "comment[fragment mass tolerance]"

C_Diss == "comment[dissociation method]"

C_TechRep == "comment[technical replicate]"

C_Enzyme == "comment[cleavage agent details]"

C_Fraction == "comment[fraction identifier]"

C_Label == "comment[label]"

C_Factor == "factor value["

C_Characteristics == "characteristics["

\* column in row
HasCol(row, c) == c \in DOMAIN row

\* FileToColumnEntries: the twelve dicts, empty
EmptyF2c ==
  [file2mods |-> <<>>, file2pctol |-> <<>>, file2pctolunit |-> <<>>,
   file2fragtol |-> <<>>, file2fragtolunit |-> <<>>, file2diss |-> <<>>,
   file2enzyme |-> <<>>, file2fraction |-> <<>>, file2label |-> <<>>,
   file2source |-> <<>>, file2combined_factors |-> <<>>,
   file2technical_rep |-> <<>>]

IsVariableMod(m) == Contains(m, "MT=variable") \/ Contains(m, "MT=Variable")

IsFixedMod(m) == Contains(m, "MT=fixed") \/ Contains(m, "MT=Fixed")

\* file2mods[raw] = (fixed, variable), the two translations: stored unless
\* one of them raised
StoreMods(st, raw, fixed, variable) ==
  IF fixed.exc # "" THEN [st EXCEPT !.exc = fixed.exc, !.warnings = fixed.warnings]
  ELSE IF variable.exc # ""
  THEN [st EXCEPT !.exc = variable.exc, !.warnings = variable.warnings]
  ELSE [st EXCEPT !.warnings = variable.warnings,
                  !.f2c.file2mods = DictSet(@, raw, <<fixed.value, variable.value>>)]

\* the variable modifications are translated after the fixed ones, with the
\* warnings those have counted
TranslateVariable(st, raw, fixed, var_mods) ==
  StoreMods(st, raw, fixed,
            IF fixed.exc # "" THEN fixed ELSE OpenmsIfyMods(var_mods, fixed.warnings))

\* the modifications of a row: both lists sorted and translated
ModsBlock(st, row, mod_cols) ==
  TranslateVariable(st, row[C_DataFile],
                    OpenmsIfyMods(Sort(SelectSeq(Cells(row, mod_cols), IsFixedMod)),
                                  st.warnings),
                    Sort(SelectSeq(Cells(row, mod_cols), IsVariableMod)))

\* the source of a row: file2source, and the list of sources in the order
\* they are first met
SourceBlock(st, row) ==
  LET raw == row[C_DataFile]
      source_name == row[C_Source]
  IN  [st EXCEPT !.f2c.file2source = DictSet(@, raw, source_name),
                 !.source_name_list =
                    IF \E i \in 1..Len(@) : @[i] = source_name THEN @
                    ELSE Append(@, source_name)]

\* the precursor mass tolerance of a row: value and unit, or the default
\* with a warning
PcTolBlock(st, row) ==
  LET raw == row[C_DataFile]
      default == [st EXCEPT !.f2c.file2pctol = DictSet(@, raw, "10"),
                            !.f2c.file2pctolunit = DictSet(@, raw, "ppm")]
  IN  IF HasCol(row, C_PcTol)
      THEN LET pc_tol_str == row[C_PcTol]
               pc_tmp == Split(pc_tol_str, " ")
           IN  IF Contains(pc_tol_str, "ppm") \/ Contains(pc_tol_str, "Da")
               THEN IF Len(pc_tmp) < 2
                    THEN [st EXCEPT !.exc = "IndexError",
                                    !.f2c.file2pctol = DictSet(@, raw, pc_tmp[1])]
                    ELSE [st EXCEPT !.f2c.file2pctol = DictSet(@, raw, pc_tmp[1]),
                                    !.f2c.file2pctolunit = DictSet(@, raw, pc_tmp[2])]
               ELSE [default EXCEPT !.warnings = Warn(@, W_PcInvalid)]
      ELSE [default EXCEPT !.warnings = Warn(@, W_PcMissing)]

\* the result of f_tol_str.replace("PPM", "ppm") is dropped: the string
\* tested is the cell as read
FragTolBlock(st, row) ==
  LET raw == row[C_DataFile]
      default == [st EXCEPT !.f2c.file2fragtol = DictSet(@, raw, "20"),
                            !.f2c.file2fragtolunit = DictSet(@, raw, "ppm")]
  IN  IF HasCol(row, C_FragTol)
      THEN LET f_tol_str == row[C_FragTol]
               f_tmp == Split(f_tol_str, " ")
           IN  IF Contains(f_tol_str, "ppm") \/ Contains(f_tol_str, "Da")
               THEN IF Len(f_tmp) < 2
                    THEN [st EXCEPT !.exc = "IndexError",
                                    !.f2c.file2fragtol = DictSet(@, raw, f_tmp[1])]
                    ELSE [st EXCEPT !.f2c.file2fragtol = DictSet(@, raw, f_tmp[1]),
                                    !.f2c.file2fragtolunit = DictSet(@, raw, f_tmp[2])]
               ELSE [default EXCEPT !.warnings = Warn(@, W_FragInvalid)]
      ELSE [default EXCEPT !.warnings = Warn(@, W_FragMissing)]

DissBlock(st, row) ==
  LET raw == row[C_DataFile]
  IN  IF HasCol(row, C_Diss)
      THEN LET found == ReSearchTag("NT=", row[C_Diss])
           IN  IF ~found.found THEN [st EXCEPT !.exc = "AttributeError"]
               ELSE [st EXCEPT !.f2c.file2diss = DictSet(@, raw, Upper(found.group))]
      ELSE [st EXCEPT !.warnings = Warn(@, W_DissMissing),
                      !.f2c.file2diss = DictSet(@, raw, "HCD")]

\* the technical replicate stored for a row
TechnicalRep(row) ==
  IF HasCol(row, C_TechRep)
  THEN IF Contains(row[C_TechRep], "not available") THEN "1" ELSE row[C_TechRep]
  ELSE "1"

Max(a, b) == IF a >= b THEN a ELSE b

\* as HighestRep, but the replicate number met last is stored, not the highest
HighestRep_LastMet(source_name2n_reps, source_name, rep) ==
  DictSet(source_name2n_reps, source_name, rep)

\* source_name2n_reps after a file of the source with replicate number rep
HighestRep(source_name2n_reps, source_name, rep) ==
  IF DictHas(source_name2n_reps, source_name)
  THEN DictSet(source_name2n_reps, source_name,
               Max(DictGet(source_name2n_reps, source_name), rep))
  ELSE DictSet(source_name2n_reps, source_name, rep)

\* the technical replicate of a row and the highest replicate number of its
\* source
RepBlock(st, row) ==
  LET raw == row[C_DataFile]
      rep == TechnicalRep(row)
      s1 == [st EXCEPT !.f2c.file2technical_rep = DictSet(@, raw, rep)]
  IN  IF ~IsInt(rep) THEN [s1 EXCEPT !.exc = "ValueError"]
      ELSE [s1 EXCEPT !.source_name2n_reps = HighestRep(@, row[C_Source], ParseInt(rep))]

EnzymeBlock(st, row) ==
  LET raw == row[C_DataFile]
      found == ReSearchTag("NT=", row[C_Enzyme])
      enzyme == Capitalize(found.group)
  IN  IF ~found.found THEN [st EXCEPT !.exc = "AttributeError"]
      ELSE [st EXCEPT !.f2c.file2enzyme =
               DictSet(@, raw, IF Contains(enzyme, "Trypsin/p") THEN "Trypsin/P" ELSE enzyme)]

\* the fraction identifier stored for a row
FractionOf(row) ==
  IF HasCol(row, C_Fraction)
  THEN IF Contains(row[C_Fraction], "not available") THEN "1" ELSE row[C_Fraction]
  ELSE "1"

FractionBlock(st, row) ==
  [st EXCEPT !.f2c.file2fraction = DictSet(@, row[C_DataFile], FractionOf(row))]

LabelBlock(st, row) ==
  LET found == ReSearchTag("NT=", row[C_Label])
  IN  IF ~found.found THEN [st EXCEPT !.exc = "AttributeError"]
      ELSE [st EXCEPT !.f2c.file2label = DictSet(@, row[C_DataFile], found.group)]

\* the condition of a row: combine_factors_to_conditions, or the cells of
\* the columns the caller named
ConditionBlock(st, row, split, factor_cols, characteristics_cols) ==
  LET derived == CombineFactorsToConditions(characteristics_cols, factor_cols, row, st.warnings)
      combined_factors == IF split THEN Join("|", Cells(row, factor_cols)) ELSE derived.value
  IN  [st EXCEPT !.warnings = IF split THEN @ ELSE derived.warnings,
                 !.combined = combined_factors,
                 !.f2c.file2combined_factors = DictSet(@, row[C_DataFile], combined_factors)]

\* the blocks of the loop body, in the order of the source
Blocks ==
  <<"mods", "source", "precursor tolerance", "fragment tolerance", "dissociation",
    "technical replicate", "enzyme", "fraction", "label", "condition">>

Block(name, st, row, mod_cols, split, factor_cols, characteristics_cols) ==
  CASE name = "mods" -> ModsBlock(st, row, mod_cols)
    [] name = "source" -> SourceBlock(st, row)
    [] name = "precursor tolerance" -> PcTolBlock(st, row)
    [] name = "fragment tolerance" -> FragTolBlock(st, row)
    [] name = "dissociation" -> DissBlock(st, row)
    [] name = "technical replicate" -> RepBlock(st, row)
    [] name = "enzyme" -> EnzymeBlock(st, row)
    [] name = "fraction" -> FractionBlock(st, row)
    [] name = "label" -> LabelBlock(st, row)
    [] name = "condition" ->
         ConditionBlock(st, row, split, factor_cols, characteristics_cols)

RECURSIVE RunBlocks(_, _, _, _, _, _, _)
\* the blocks from the k-th on, one after the other; a block that raises ends
\* the body, and what was stored before stays stored
RunBlocks(k, st, row, mod_cols, split, factor_cols, characteristics_cols) ==
  IF k > Len(Blocks) \/ st.exc # "" THEN st
  ELSE RunBlocks(k + 1,
                 Block(Blocks[k], st, row, mod_cols, split, factor_cols,
                       characteristics_cols),
                 row, mod_cols, split, factor_cols, characteristics_cols)

\* The body of the loop over the rows, for one row.  st holds what the loop
\* changes: exc (the exception raised, "" for none), f2c, warnings,
\* source_name_list, source_name2n_reps, and combined, the row's condition.
ExtractRowBody(st, row, mod_cols, split, factor_cols, characteristics_cols) ==
  RunBlocks(1, st, row, mod_cols, split, factor_cols, characteristics_cols)

(***************************************************************************)
(* The output tables.  A file is the sequence of its lines, a line the     *)
(* sequence of its tab-separated cells; an empty line is <<"">>.           *)
(***************************************************************************)

RECURSIVE SumReps(_, _, _)
\* the highest replicate numbers of the first n sources, added up
SumReps(source_name_list, source_name2n_reps, n) ==
  IF n = 0 THEN 0
  ELSE SumReps(source_name_list, source_name2n_reps, n - 1)
       + DictGet(source_name2n_reps, source_name_list[n])

\* source_name_list.index(source_name)
SourceIndex(source_name_list, source_name) ==
  CHOOSE i \in 1..Len(source_name_list) :
    /\ source_name_list[i] = source_name
    /\ \A j \in 1..(i - 1) : source_name_list[j] # source_name

\* as Offset, but the source's own replicates are counted in
Offset_Inclusive(source_name, source_name_list, source_name2n_reps) ==
  SumReps(source_name_list, source_name2n_reps,
          SourceIndex(source_name_list, source_name))

\* the offset of a source: the replicates of the sources listed before it
Offset(source_name, source_name_list, source_name2n_reps) ==
  SumReps(source_name_list, source_name2n_reps,
          SourceIndex(source_name_list, source_name) - 1)

\* fraction_group, a string: offset + int(replicate)
FractionGroup(row, file2technical_rep, source_name_list, source_name2n_reps) ==
  ToString(Offset(row[C_Source], source_name_list, source_name2n_reps)
           + ParseInt(DictGet(file2technical_rep, row[C_DataFile])))

\* the test for the fallback condition of a design row
IsFallback(combined_factors) == Contains(combined_factors, "none")

\* condition of a design row
DesignCondition(combined_factors, sample) ==
  IF IsFallback(combined_factors) THEN sample ELSE combined_factors

\* label of a design row
DesignLabel(label) == IF Contains(label, "label free sample") THEN "1" ELSE label

\* raw_ext_regex.sub(".mzML", raw) unless keep_raw
OutPath(raw, keep_raw) ==
  IF ~keep_raw /\ Len(raw) >= 4 /\ Lower(SubSeq(raw, Len(raw) - 3, Len(raw))) = ".raw"
  THEN SubSeq(raw, 1, Len(raw) - 4) \o ".mzML"
  ELSE raw

TwoTableFileHeader == <<"Fraction_Group", "Fraction", "Spectra_Filepath", "Label", "Sample">>

TwoTableSampleHeader == <<"Sample", "MSstats_Condition", "MSstats_BioReplicate">>

OneTableLegacyHeader ==
  <<"Fraction_Group", "Fraction", "Spectra_Filepath", "Label", "Sample",
    "MSstats_Condition", "MSstats_BioReplicate">>

OneTableHeader ==
  <<"Fraction_Group", "Fraction", "Spectra_Filepath", "Label",
    "MSstats_Condition", "MSstats_BioReplicate">>

SearchSettingsHeader ==
  <<"URI", "Filename", "FixedModifications", "VariableModifications", "Label",
    "PrecursorMassTolerance", "PrecursorMassToleranceUnit", "FragmentMassTolerance",
    "FragmentMassToleranceUnit", "DissociationMethod", "Enzyme">>

\* one line of the file-level table of the two-table design
TwoTableFileRow(row, f2c, source_name_list, source_name2n_reps, keep_raw) ==
  LET raw == row[C_DataFile]
      fraction_group == FractionGroup(row, f2c.file2technical_rep,
                                      source_name_list, source_name2n_reps)
  IN  <<fraction_group, DictGet(f2c.file2fraction, raw), OutPath(raw, keep_raw),
        DesignLabel(DictGet(f2c.file2label, raw)), fraction_group>>

RECURSIVE SampleRows(_, _, _, _, _)
\* the lines of the sample-level table: one per sample, the first row of a
\* sample deciding its condition; sample_row_written lists the samples done
SampleRows(rows, f2c, source_name_list, source_name2n_reps, sample_row_written) ==
  IF rows = <<>> THEN <<>>
  ELSE LET row == Head(rows)
           sample == FractionGroup(row, f2c.file2technical_rep,
                                   source_name_list, source_name2n_reps)
           condition == DesignCondition(DictGet(f2c.file2combined_factors, row[C_DataFile]),
                                        sample)
       IN  IF sample \in sample_row_written
           THEN SampleRows(Tail(rows), f2c, source_name_list, source_name2n_reps,
                           sample_row_written)
           ELSE <<(<<sample, condition, sample>>)>>
                \o SampleRows(Tail(rows), f2c, source_name_list, source_name2n_reps,
                              sample_row_written \cup {sample})

\* writeTwoTableExperimentalDesign: the lines written
WriteTwoTableExperimentalDesign(rows, f2c, source_name_list, source_name2n_reps, keep_raw) ==
  <<TwoTableFileHeader>>
  \o [i \in 1..Len(rows) |->
        TwoTableFileRow(rows[i], f2c, source_name_list, source_name2n_reps, keep_raw)]
  \o << <<"">>, TwoTableSampleHeader >>
  \o SampleRows(rows, f2c, source_name_list, source_name2n_reps, {})

\* one line of the one-table design
OneTableRow(row, legacy, f2c, source_name_list, source_name2n_reps, keep_raw) ==
  LET raw == row[C_DataFile]
      fraction_group == FractionGroup(row, f2c.file2technical_rep,
                                      source_name_list, source_name2n_reps)
      sample == fraction_group
      condition == DesignCondition(DictGet(f2c.file2combined_factors, raw), sample)
      label == DesignLabel(DictGet(f2c.file2label, raw))
  IN  IF legacy
      THEN <<fraction_group, DictGet(f2c.file2fraction, raw), OutPath(raw, keep_raw),
             label, sample, condition, sample>>
      ELSE <<fraction_group, DictGet(f2c.file2fraction, raw), OutPath(raw, keep_raw),
             label, condition, sample>>

\* writeOneTableExperimentalDesign: the lines written
WriteOneTableExperimentalDesign(legacy, rows, f2c, source_name_list, source_name2n_reps, keep_raw) ==
  <<(IF legacy THEN OneTableLegacyHeader ELSE OneTableHeader)>>
  \o [i \in 1..Len(rows) |->
        OneTableRow(rows[i], legacy, f2c, source_name_list, source_name2n_reps, keep_raw)]

\* save_search_settings_to_file: the lines written
SaveSearchSettingsToFile(rows, f2c) ==
  <<SearchSettingsHeader>>
  \o [i \in 1..Len(rows) |->
        LET raw == rows[i][C_DataFile]
        IN  <<rows[i][C_Uri], raw, DictGet(f2c.file2mods, raw)[1],
              DictGet(f2c.file2mods, raw)[2], DictGet(f2c.file2label, raw),
              DictGet(f2c.file2pctol, raw), DictGet(f2c.file2pctolunit, raw),
              DictGet(f2c.file2fragtol, raw), DictGet(f2c.file2fragtolunit, raw),
              DictGet(f2c.file2diss, raw), DictGet(f2c.file2enzyme, raw)>>]

\* the experimental design written to one file, in either format
WriteDesign(one_table, legacy, rows, f2c, source_name_list, source_name2n_reps, keep_raw) ==
  IF one_table
  THEN WriteOneTableExperimentalDesign(legacy, rows, f2c, source_name_list,
                                       source_name2n_reps, keep_raw)
  ELSE WriteTwoTableExperimentalDesign(rows, f2c, source_name_list,
                                       source_name2n_reps, keep_raw)

RECURSIVE Distinct(_)
\* Counter(values).keys(): the distinct values in first-met order
Distinct(values) ==
  IF values = <<>> THEN <<>>
  ELSE LET rest == Distinct(SubSeq(values, 1, Len(values) - 1))
           last == values[Len(values)]
       IN  IF \E i \in 1..Len(rest) : rest[i] = last THEN rest ELSE Append(rest, last)

C_Conditions == "_conditions_from_factors"

\* sdrf.loc[sdrf["_conditions_from_factors"] == c]
RowsOfCondition(rows, c) ==
  LET Same(row) == row[C_Conditions] = c IN SelectSeq(rows, Same)

RECURSIVE SplitFiles(_, _, _, _, _, _, _, _, _)
\* the files written for the conditions index..Len(conditions), a pair per
\* condition, numbered from 0
SplitFiles(index, conditions, rows, f2c, source_name_list, source_name2n_reps, one_table, legacy, keep_raw) ==
  IF index > Len(conditions) THEN <<>>
  ELSE LET split_sdrf == RowsOfCondition(rows, conditions[index])
       IN  << [k |-> "openms.tsv." \o ToString(index - 1),
               v |-> SaveSearchSettingsToFile(split_sdrf, f2c)],
              [k |-> "experimental_design.tsv." \o ToString(index - 1),
               v |-> WriteDesign(one_table, legacy, split_sdrf, f2c, source_name_list,
                                 source_name2n_reps, keep_raw)] >>
           \o SplitFiles(index + 1, conditions, rows, f2c, source_name_list,
                         source_name2n_reps, one_table, legacy, keep_raw)

\* the files written by one run, as a dict from file name to lines
OutputFiles(split, conditions, rows, f2c, source_name_list, source_name2n_reps, one_table, legacy, keep_raw) ==
  IF ~split
  THEN << [k |-> "openms.tsv", v |-> SaveSearchSettingsToFile(rows, f2c)],
          [k |-> "experimental_design.tsv",
           v |-> WriteDesign(one_table, legacy, rows, f2c, source_name_list,
                             source_name2n_reps, keep_raw)] >>
  ELSE SplitFiles(1, conditions, rows, f2c, source_name_list, source_name2n_reps,
                  one_table, legacy, keep_raw)

\* reportWarnings: the lines printed
ReportWarnings(warnings, sdrf_file) ==
  [i \in 1..Len(warnings) |->
     "WARNING: \"" \o warnings[i].k \o "\" occured " \o ToString(warnings[i].v) \o " times."]
  \o <<"SUCCESS (WARNINGS=" \o ToString(Len(warnings)) \o "): " \o sdrf_file>>

(***************************************************************************)
(* The state                                                               *)
(***************************************************************************)

VARIABLES
  sdrf,                 \* the table as loaded (lines 103-105): columns, rows
  split_by_columns,     \* the argument of that name, "" for None
  pc,                   \* where the call stands
  row_index,            \* the row the extraction loop is at
  mod_cols, factor_cols, characteristics_cols,
  source_name_list, source_name2n_reps,
  f2c,                  \* the dicts of FileToColumnEntries
  warnings,             \* self.warnings
  conditions,           \* the conditions found (line 247)
  files,                \* the files written: a dict from name to lines
  stdout,               \* the lines printed by reportWarnings
  exc,                  \* the exception that ended the call, "" for none
  call                  \* arguments and result of a single function call

vars == <<sdrf, split_by_columns, pc, row_index, mod_cols, factor_cols,
          characteristics_cols, source_name_list, source_name2n_reps, f2c,
          warnings, conditions, files, stdout, exc, call>>

SdrfFile == "sdrf.tsv"

(***************************************************************************)
(* The inputs                                                              *)
(***************************************************************************)

MaxRows == 3

Sources == {"A", "B"}

\* the cells of a technical replicate column
Reps == {"1", "2", "3"}

C_Treatment == "factor value[treatment]"

C_OrganismPart == "characteristics[organism part]"

C_Mods1 == "comment[modification parameters]"

C_Mods2 == "comment[modification parameters].1"

\* the columns of a complete table, in the order of the file
AllColumns ==
  <<C_Source, C_OrganismPart, C_Label, C_Enzyme, C_Mods1, C_Mods2, C_PcTol,
    C_FragTol, C_Diss, C_TechRep, C_Fraction, C_DataFile, C_Uri, C_Treatment>>

Range(f) == {f[i] : i \in DOMAIN f}

\* a table of the columns cols whose rows are the rows full restricted to them
Table(cols, full) ==
  [columns |-> cols,
   rows |-> [i \in 1..Len(full) |-> [c \in Range(cols) |-> full[i][c]]]]

\* the columns cols without the columns of the set drop
Without(cols, drop) == LET Keep(c) == c \notin drop IN SelectSeq(cols, Keep)

FileName(i) == "f" \o ToString(i) \o ".raw"

\* a well-formed row: file i of a source, with its replicate, its treatment
\* and its organism part
FullRow(i, source, rep, treatment, part) ==
  (C_Source :> source) @@ (C_OrganismPart :> part)
  @@ (C_Label :> "NT=label free sample") @@ (C_Enzyme :> "NT=trypsin/P")
  @@ (C_Mods1 :> "NT=Carbamidomethyl;AC=UNIMOD:4;TA=C;MT=Fixed")
  @@ (C_Mods2 :> "NT=oxidation;MT=variable;TA=M;AC=UNIMOD:35")
  @@ (C_PcTol :> "10 ppm") @@ (C_FragTol :> "5 Da") @@ (C_Diss :> "NT=hcd")
  @@ (C_TechRep :> rep) @@ (C_Fraction :> "1")
  @@ (C_DataFile :> FileName(i)) @@ (C_Uri :> "u" \o ToString(i))
  @@ (C_Treatment :> treatment)

\* the treatments of the rows 1, 2, ...: constant, alternating, or with a
\* treatment whose name has "none" in it
Treatment(pattern, i) ==
  CASE pattern = "constant" -> "ctrl"
    [] pattern = "alternating" -> IF i % 2 = 1 THEN "ctrl" ELSE "drug"
    [] pattern = "none" -> IF i = 1 THEN "nonenzymatic" ELSE "drug"

\* the organism parts of the rows: constant, the treatment over again, or
\* varying on their own
OrganismPart(pattern, treatment, i) ==
  CASE pattern = "constant" -> "liver"
    [] pattern = "same" -> Treatment(treatment, i)
    [] pattern = "varying" -> IF i = 1 THEN "liver" ELSE "brain"

\* the tables of the design family: every assignment of a source and a
\* replicate to up to MaxRows files, under a few factor and characteristic
\* columns
DesignPatterns ==
  { <<"alternating", "same">>, <<"alternating", "varying">>, <<"none", "varying">> }

DesignColumns == Without(AllColumns, {C_Mods1, C_Mods2, C_PcTol, C_FragTol, C_Diss})

DesignTables ==
  { Table(DesignColumns,
          [i \in 1..n |-> FullRow(i, src[i], rep[i], Treatment(p[1], i),
                                  OrganismPart(p[2], p[1], i))]) :
      <<n, src, rep, p>> \in
        UNION { {n} \X [1..n -> Sources] \X [1..n -> Reps] \X DesignPatterns
                : n \in 1..MaxRows } }


\* the example of the design: sources A (2 replicates), B (1), C (3)
ExampleTable ==
  Table(DesignColumns,
        << FullRow(1, "A", "1", "ctrl", "liver"), FullRow(2, "A", "2", "drug", "liver"),
           FullRow(3, "B", "1", "ctrl", "brain"), FullRow(4, "C", "1", "drug", "brain"),
           FullRow(5, "C", "2", "ctrl", "liver"), FullRow(6, "C", "3", "drug", "liver") >>)

\* A table of three files of the sources B, A and C in which one thing is
\* unusual: columns that are left out (drop), or cells of the second row
\* that read otherwise (cells), or treatments and organism parts that do not
\* vary (pattern)
Unusual(drop, cells, pattern) ==
  Table(Without(AllColumns, drop),
        << FullRow(1, "B", "2", Treatment(pattern[1], 1),
                   OrganismPart(pattern[2], pattern[1], 1)),
           cells @@ FullRow(2, "A", "2", Treatment(pattern[1], 2),
                            OrganismPart(pattern[2], pattern[1], 2)),
           FullRow(3, "C", "1", Treatment(pattern[1], 3),
                   OrganismPart(pattern[2], pattern[1], 3)) >>)

Usual == <<"alternating", "varying">>

OptionalColumns == {C_PcTol, C_FragTol, C_Diss, C_TechRep, C_Fraction}

\* cells of the optional columns that are not as they should be; "nan" is
\* how an empty cell reads
UnusualCells ==
  { C_PcTol :> "nan", C_PcTol :> "20ppm", C_PcTol :> "10 PPM",
    C_FragTol :> "nan", C_FragTol :> "0.02Da", C_FragTol :> "20 PPM",
    C_Diss :> "nan", C_Diss :> "HCD",
    C_TechRep :> "nan", C_TechRep :> "not available",
    C_Fraction :> "nan", C_Fraction :> "not available" }

\* modification cells: another authority with and without a modification
\* type, no target site with and without a position to take it from (the
\* position last, or first), an empty cell
UnusualMods ==
  { C_Mods2 :> "NT=Oxidation;AC=MOD:00719;MT=variable;TA=M",
    C_Mods2 :> "NT=Oxidation;AC=MOD:00719;TA=M",
    C_Mods2 :> "NT=Acetyl;AC=UNIMOD:1;PP=Anywhere;MT=variable",
    C_Mods2 :> "NT=Acetyl;AC=UNIMOD:1;MT=variable;PP=Protein N-term",
    C_Mods2 :> "NT=Acetyl;AC=UNIMOD:1;PP=Protein N-term;MT=variable",
    C_Mods2 :> "nan",
    (C_Mods1 :> "NT=Oxidation;AC=UNIMOD:35;TA=M;MT=variable")
      @@ (C_Mods2 :> "NT=Phospho;AC=UNIMOD:21;MT=variable"),
    (C_Mods1 :> "NT=Carbamidomethyl;AC=UNIMOD:4;TA=C;MT=fixed")
      @@ (C_Mods2 :> "NT=Oxidation;AC=MOD:00719;MT=Variable;TA=M") }

\* the tables of the extraction family
ExtractTables ==
  { Unusual({c}, <<>>, Usual) : c \in OptionalColumns }
  \cup { Unusual(OptionalColumns, <<>>, Usual), Unusual({}, <<>>, Usual),
         Unusual({C_Mods1, C_Mods2}, <<>>, Usual),
         Unusual({}, <<>>, <<"constant", "constant">>),
         Unusual({}, <<>>, <<"constant", "varying">>),
         Unusual({}, <<>>, <<"none", "same">>) }
  \cup { Unusual({}, cells, Usual) : cells \in UnusualCells \cup UnusualMods }

SplitArguments == {"", "[factor value[treatment]]"}

(***************************************************************************)
(* openms_convert, step by step                                            *)
(***************************************************************************)

\* the columns of the table that start with prefix
ColumnsStarting(prefix) ==
  LET Starts(c) == StartsWith(c, prefix) IN SelectSeq(sdrf.columns, Starts)

\* len(sdrf[c].unique()) > 1
Varies(c) == Cardinality(Range(Column(sdrf.rows, c))) > 1

\* the columns that start with prefix and are not constant
VaryingColumns(prefix) ==
  LET Informative(c) == StartsWith(c, prefix) /\ Varies(c)
  IN  SelectSeq(sdrf.columns, Informative)

\* split_by_columns[1:-1].split(',')
SplitColumns == Split(SubSeq(split_by_columns, 2, Len(split_by_columns) - 1), ",")

\* Lines 95-129: the columns the run works with.  Without split_by_columns
\* the factor and characteristic columns that vary are found and the
\* redundant characteristics removed, which can raise.
SelectColumns ==
  /\ pc = "start"
  /\ mod_cols' = ColumnsStarting(C_Mods)
  /\ IF split_by_columns = ""
     THEN LET selected == RemoveRedundantCharacteristics(
                            VaryingColumns(C_Characteristics), sdrf.rows,
                            VaryingColumns(C_Factor))
          IN  /\ factor_cols' = VaryingColumns(C_Factor)
              /\ characteristics_cols' = selected.cols
              /\ exc' = selected.exc
              /\ pc' = IF selected.exc = "" THEN "rows" ELSE "failed"
     ELSE /\ factor_cols' = SplitColumns
          /\ characteristics_cols' = <<>>
          /\ exc' = ""
          /\ pc' = "rows"
  /\ UNCHANGED <<sdrf, split_by_columns, row_index, source_name_list,
                 source_name2n_reps, f2c, warnings, conditions, files, stdout, call>>

\* Lines 131-243 for the row at row_index: everything the loop body stores,
\* up to the exception that ends the run if one is raised
ExtractRow ==
  /\ pc = "rows"
  /\ row_index <= Len(sdrf.rows)
  /\ LET row == sdrf.rows[row_index]
         st == ExtractRowBody([exc |-> "", f2c |-> f2c, warnings |-> warnings,
                               source_name_list |-> source_name_list,
                               source_name2n_reps |-> source_name2n_reps,
                               combined |-> ""],
                              [c \in DOMAIN row \ {C_Conditions} |-> row[c]], mod_cols,
                              split_by_columns # "", factor_cols, characteristics_cols)
     IN  /\ f2c' = st.f2c
         /\ warnings' = st.warnings
         /\ source_name_list' = st.source_name_list
         /\ source_name2n_reps' = st.source_name2n_reps
         /\ exc' = st.exc
         /\ IF st.exc = ""
            THEN /\ sdrf' = [sdrf EXCEPT !.rows[row_index] = (C_Conditions :> st.combined) @@ row]
                 /\ row_index' = row_index + 1
                 /\ pc' = "rows"
            ELSE /\ pc' = "failed"
                 /\ UNCHANGED <<sdrf, row_index>>
  /\ UNCHANGED <<split_by_columns, mod_cols, factor_cols, characteristics_cols,
                 conditions, files, stdout, call>>

\* Lines 247-280, after the last row: the conditions are counted and the
\* tables written, whole or one pair per condition.  The flags one_table,
\* legacy and keep_raw are arguments of the call that are first read here.
\* (With no row at all the variable raw handed to the writers is unbound.)
WriteOutputs ==
  /\ pc = "rows"
  /\ row_index > Len(sdrf.rows)
  /\ conditions' = Distinct(DictValues(f2c.file2combined_factors))
  /\ IF split_by_columns = "" /\ sdrf.rows = <<>>
     THEN /\ exc' = "UnboundLocalError"
          /\ pc' = "failed"
          /\ files' = files
     ELSE /\ \E one_table \in BOOLEAN, legacy \in BOOLEAN, keep_raw \in BOOLEAN :
               files' = OutputFiles(split_by_columns # "", conditions', sdrf.rows, f2c,
                                    source_name_list, source_name2n_reps,
                                    one_table, legacy, keep_raw)
          /\ exc' = ""
          /\ pc' = "report"
  /\ UNCHANGED <<sdrf, split_by_columns, row_index, mod_cols, factor_cols,
                 characteristics_cols, source_name_list, source_name2n_reps, f2c,
                 warnings, stdout, call>>

\* Line 283: reportWarnings prints the warnings and the status line
Report ==
  /\ pc = "report"
  /\ stdout' = ReportWarnings(warnings, SdrfFile)
  /\ pc' = "done"
  /\ UNCHANGED <<sdrf, split_by_columns, row_index, mod_cols, factor_cols,
                 characteristics_cols, source_name_list, source_name2n_reps, f2c,
                 warnings, conditions, files, exc, call>>

\* the state in which openms_convert is entered, on a fresh process
Entered(table, split) ==
  /\ sdrf = table
  /\ split_by_columns = split
  /\ pc = "start"
  /\ row_index = 1
  /\ mod_cols = <<>>
  /\ factor_cols = <<>>
  /\ characteristics_cols = <<>>
  /\ source_name_list = <<>>
  /\ source_name2n_reps = <<>>
  /\ f2c = EmptyF2c
  /\ warnings = <<>>
  /\ conditions = <<>>
  /\ files = <<>>
  /\ stdout = <<>>
  /\ exc = ""
  /\ call = <<>>

Init ==
  \E table \in DesignTables \cup ExtractTables \cup {ExampleTable},
     split \in SplitArguments :
    Entered(table, split)

Next == SelectColumns \/ ExtractRow \/ WriteOutputs \/ Report

Spec == Init /\ [][Next]_vars

(***************************************************************************)
(* Single calls of the three functions, on arguments of their own          *)
(***************************************************************************)

\* no run of openms_convert under way
NoRun ==
  /\ sdrf = [columns |-> <<>>, rows |-> <<>>]
  /\ split_by_columns = ""
  /\ row_index = 1
  /\ mod_cols = <<>>
  /\ factor_cols = <<>>
  /\ characteristics_cols = <<>>
  /\ source_name_list = <<>>
  /\ source_name2n_reps = <<>>
  /\ f2c = EmptyF2c
  /\ warnings = <<>>
  /\ conditions = <<>>
  /\ files = <<>>
  /\ stdout = <<>>
  /\ exc = ""

run_vars == <<sdrf, split_by_columns, row_index, mod_cols, factor_cols,
              characteristics_cols, source_name_list, source_name2n_reps, f2c,
              conditions, files, stdout>>

Positions == {"Anywhere", "Protein N-term", "Protein C-term", "Any N-term", "Any C-term"}

TargetSites == {"K", "N-term", "C-term", "S,T"}

\* An annotation "NT=acetyl;AC=UNIMOD:1" with a PP tag (none when pp = "")
\* and a TA tag (none when ta = ""), the PP tag standing before the AC tag
\* or after all the others
Annotation(pp, ta, pp_last) ==
  "NT=acetyl"
  \o (IF pp # "" /\ ~pp_last THEN ";PP=" \o pp ELSE "")
  \o ";AC=UNIMOD:1"
  \o (IF ta # "" THEN ";TA=" \o ta ELSE "")
  \o (IF pp # "" /\ pp_last THEN ";PP=" \o pp ELSE "")

Annotations ==
  { Annotation(pp, ta, pp_last) :
      pp \in Positions \cup {""}, ta \in TargetSites \cup {""}, pp_last \in BOOLEAN }
  \cup { "NT=methyl;AC=Unimod:34;TA=K", "NT=Oxidation;AC=MOD:00719;TA=M" }

\* the lists of annotations handed to openms_ify_mods
AnnotationLists ==
  {<<>>} \cup { <<a>> : a \in Annotations } \cup { <<a, b>> : a, b \in Annotations }

InitMods ==
  /\ NoRun
  /\ pc = "call"
  /\ \E l \in AnnotationLists : call = [sdrf_mods |-> l, ret |-> ""]

\* openms_ify_mods(sdrf_mods): it returns a string or raises
CallOpenmsIfyMods ==
  /\ pc = "call"
  /\ LET r == OpenmsIfyMods(call.sdrf_mods, warnings)
     IN  /\ call' = [call EXCEPT !.ret = r.value]
         /\ warnings' = r.warnings
         /\ exc' = r.exc
         /\ pc' = IF r.exc = "" THEN "returned" ELSE "raised"
  /\ UNCHANGED run_vars

NextMods == CallOpenmsIfyMods

SpecMods == InitMods /\ [][NextMods]_vars

C_C1 == "characteristics[c1]"

C_C2 == "characteristics[c2]"

C_F1 == "factor value[f1]"

C_F2 == "factor value[f2]"

ColumnLists(c1, c2) == { <<>>, <<c1>>, <<c1, c2>>, <<c2, c1>> }

\* rows of the four columns with cells out of the set values
FourColumnRows(values) ==
  { (C_C1 :> v[1]) @@ (C_C2 :> v[2]) @@ (C_F1 :> v[3]) @@ (C_F2 :> v[4]) :
      v \in values \X values \X values \X values }

InitCombine ==
  /\ NoRun
  /\ pc = "call"
  /\ \E row \in FourColumnRows({"", "a", "b"}),
        cc \in ColumnLists(C_C1, C_C2), fc \in ColumnLists(C_F1, C_F2) :
       call = [characteristics_cols |-> cc, factor_cols |-> fc, row |-> row,
               ret |-> "", again |-> ""]

\* combine_factors_to_conditions(characteristics_cols, factor_cols, row)
CallCombine ==
  /\ pc = "call"
  /\ LET r == CombineFactorsToConditions(call.characteristics_cols, call.factor_cols,
                                         call.row, warnings)
     IN  /\ call' = [call EXCEPT !.ret = r.value]
         /\ warnings' = r.warnings
  /\ pc' = "returned"
  /\ UNCHANGED <<run_vars, exc>>

\* the same call once more, on the row as it is
CallCombineAgain ==
  /\ pc = "returned"
  /\ LET r == CombineFactorsToConditions(call.characteristics_cols, call.factor_cols,
                                         call.row, warnings)
     IN  /\ call' = [call EXCEPT !.again = r.value]
         /\ warnings' = r.warnings
  /\ pc' = "returned again"
  /\ UNCHANGED <<run_vars, exc>>

NextCombine == CallCombine \/ CallCombineAgain

SpecCombine == InitCombine /\ [][NextCombine]_vars

InitSelect ==
  /\ NoRun
  /\ pc = "call"
  /\ \E r1 \in FourColumnRows({"a", "b"}), r2 \in FourColumnRows({"a", "b"}),
        cc \in ColumnLists(C_C1, C_C2), fc \in ColumnLists(C_F1, C_F2) :
       call = [characteristics_cols |-> cc, factor_cols |-> fc, rows |-> <<r1, r2>>,
               ret |-> <<>>]

\* removeRedundantCharacteristics(characteristics_cols, sdrf, factor_cols): it
\* returns the pair of the columns kept and f, or raises
CallRemoveRedundantCharacteristics ==
  /\ pc = "call"
  /\ LET r == RemoveRedundantCharacteristics(call.characteristics_cols, call.rows,
                                             call.factor_cols)
     IN  /\ call' = [call EXCEPT !.ret = IF r.exc = "" THEN <<r.cols, r.f>> ELSE <<>>]
         /\ exc' = r.exc
         /\ pc' = IF r.exc = "" THEN "returned" ELSE "raised"
  /\ UNCHANGED <<run_vars, warnings>>

NextSelect == CallRemoveRedundantCharacteristics

SpecSelect == InitSelect /\ [][NextSelect]_vars

(***************************************************************************)
(* The vocabulary of the properties: what the input says, read off the     *)
(* table alone, and what the files say, read off their lines               *)
(***************************************************************************)

\* the technical-replicate number of an input row, a missing or "not
\* available" replicate counting as 1
RowRep(row) ==
  IF ~HasCol(row, C_TechRep) \/ row[C_TechRep] = "not available" THEN 1
  ELSE ParseInt(row[C_TechRep])

\* the input rows of a source, and the first of them
RowsOfSource(s) == {i \in 1..Len(sdrf.rows) : sdrf.rows[i][C_Source] = s}

FirstRowOf(s) == CHOOSE i \in RowsOfSource(s) : \A j \in RowsOfSource(s) : i <= j

InputSources == {sdrf.rows[i][C_Source] : i \in 1..Len(sdrf.rows)}

\* the highest technical-replicate number among the files of a source
HighestRepOf(s) ==
  CHOOSE m \in {RowRep(sdrf.rows[i]) : i \in RowsOfSource(s)} :
    \A i \in RowsOfSource(s) : RowRep(sdrf.rows[i]) <= m

RECURSIVE SumOfHighest(_)
\* the highest replicate numbers of a set of sources, added up
SumOfHighest(set) ==
  IF set = {} THEN 0
  ELSE LET s == CHOOSE t \in set : TRUE IN HighestRepOf(s) + SumOfHighest(set \ {s})

\* offset(source): the highest replicate numbers of the sources first met
\* earlier in the input, added up
OffsetOf(s) ==
  SumOfHighest({t \in InputSources : FirstRowOf(t) < FirstRowOf(s)})

IsDesignFile(name) == StartsWith(name, "experimental_design.tsv")

\* the lines of the file-level table of a design file: those after the
\* header, up to the empty line if there is one
FileRows(lines) ==
  LET empty == {i \in 1..Len(lines) : lines[i] = <<"">>}
      last == IF empty = {} THEN Len(lines)
              ELSE (CHOOSE i \in empty : \A j \in empty : i <= j) - 1
  IN  SubSeq(lines, 2, last)

\* the lines of the sample-level table of a design file
SampleTable(lines) ==
  LET empty == {i \in 1..Len(lines) : lines[i] = <<"">>}
  IN  IF empty = {} THEN <<>>
      ELSE SubSeq(lines, (CHOOSE i \in empty : \A j \in empty : i <= j) + 2, Len(lines))

\* all file rows of all design files written
DesignRows == UNION { Range(FileRows(files[k].v)) : k \in {j \in 1..Len(files) : IsDesignFile(files[j].k)} }

\* the input row a file row was written for: the one whose data file is the
\* row's Spectra_Filepath, as it is or with the extension rewritten
InputRowOf(line) ==
  CHOOSE i \in 1..Len(sdrf.rows) :
    line[3] \in {sdrf.rows[i][C_DataFile],
                 SubSeq(sdrf.rows[i][C_DataFile], 1, Len(sdrf.rows[i][C_DataFile]) - 4)
                   \o ".mzML"}

\* C1: every file row of a design table carries the fraction group
\* offset(source) + technical replicate of its file, offset(source) being
\* the sum of the highest replicate numbers of the sources first met earlier
C1_FractionGroup ==
  \A line \in DesignRows :
    line[1] = ToString(OffsetOf(sdrf.rows[InputRowOf(line)][C_Source])
                       + RowRep(sdrf.rows[InputRowOf(line)]))

\* the example A (2 replicates), B (1), C (3): fraction groups 1,2 3 4,5,6
C1_Witness ==
  /\ pc = "done"
  /\ Len(sdrf.rows) = 6
  /\ split_by_columns = ""
  /\ Column(sdrf.rows, C_Source) = <<"A", "A", "B", "C", "C", "C">>
  /\ [i \in 1..6 |-> FileRows(files[2].v)[i][1]] = <<"1", "2", "3", "4", "5", "6">>

\* the fraction group written for input row i
WrittenGroup(i) ==
  ParseInt((CHOOSE line \in DesignRows : InputRowOf(line) = i)[1])

AllWritten == \A i \in 1..Len(sdrf.rows) : \E line \in DesignRows : InputRowOf(line) = i

RowPair(i) == <<sdrf.rows[i][C_Source], RowRep(sdrf.rows[i])>>

InputPairs == {RowPair(i) : i \in 1..Len(sdrf.rows)}

WrittenGroups == {WrittenGroup(i) : i \in 1..Len(sdrf.rows)}

GroupsOfSource(s) == {WrittenGroup(i) : i \in RowsOfSource(s)}

IsInterval(set) == \A a \in set, b \in set : \A c \in a..b : c \in set

\* the pairs (source, replicate) map one-to-one to the fraction groups
OneToOne ==
  \A i \in 1..Len(sdrf.rows), j \in 1..Len(sdrf.rows) :
    (RowPair(i) = RowPair(j)) <=> (WrittenGroup(i) = WrittenGroup(j))

\* the numbers of a source first met earlier are all smaller
BlocksInOrder ==
  \A i \in 1..Len(sdrf.rows), j \in 1..Len(sdrf.rows) :
    FirstRowOf(sdrf.rows[i][C_Source]) < FirstRowOf(sdrf.rows[j][C_Source])
      => WrittenGroup(i) < WrittenGroup(j)

\* every source has a file for each replicate number up to its highest
NoReplicateMissing ==
  \A s \in InputSources :
    {RowRep(sdrf.rows[i]) : i \in RowsOfSource(s)} = 1..HighestRepOf(s)

GapFree ==
  /\ WrittenGroups = 1..Cardinality(InputPairs)
  /\ \A s \in InputSources : IsInterval(GroupsOfSource(s))

\* C2 as stated: in every completed run the numbering is one-to-one and
\* gap-free: its image is 1..N, N the number of distinct pairs, each source's
\* numbers are one contiguous block, and the blocks follow the order in
\* which the sources are first met
C2_AsStated ==
  pc = "done" => AllWritten /\ OneToOne /\ GapFree /\ BlocksInOrder

\* C2: in every completed run the numbering is one-to-one, the blocks follow
\* the order in which the sources are first met, each source's numbers lie in
\* offset+1..offset+highest, and the numbering is gap-free exactly when no
\* source misses a replicate number below its highest
C2_Numbering ==
  pc = "done" =>
    /\ AllWritten
    /\ OneToOne
    /\ BlocksInOrder
    /\ \A s \in InputSources :
         /\ GroupsOfSource(s) \subseteq (OffsetOf(s) + 1)..(OffsetOf(s) + HighestRepOf(s))
         /\ OffsetOf(s) + HighestRepOf(s) \in GroupsOfSource(s)
    /\ GapFree <=> NoReplicateMissing

\* a completed run over two sources, the first without a file for one of the
\* replicate numbers below its highest
C2_Witness ==
  /\ pc = "done"
  /\ Cardinality(InputSources) = 2
  /\ ~NoReplicateMissing
  /\ \E i \in 1..Len(sdrf.rows) : WrittenGroup(i) > Cardinality(InputPairs)

(***************************************************************************)
(* Modification annotations as the properties read them                    *)
(***************************************************************************)

\* the value of a tag of an annotation, "" when the tag is absent
TagValue(key, m) == ReSearchTag(key, m).group

HasTag(key, m) == ReSearchTag(key, m).found

\* the annotation names an accession authority, and it is not UNIMOD
NamesOtherAuthority(m) ==
  HasTag("AC=", m) /\ ~StartsWith(Upper(TagValue("AC=", m)), "UNIMOD")

\* the cells of the modification columns of the input
ModCells ==
  { sdrf.rows[i][c] : i \in 1..Len(sdrf.rows), c \in Range(ColumnsStarting(C_Mods)) }

OtherAuthorityNamed == \E m \in ModCells : NamesOtherAuthority(m)

FatalError == "only UNIMOD modifications supported"

\* no file written has a line under its header
NoRowWritten ==
  \A k \in 1..Len(files) :
    IF IsDesignFile(files[k].k)
    THEN FileRows(files[k].v) = <<>> /\ SampleTable(files[k].v) = <<>>
    ELSE Len(files[k].v) <= 1

\* C3: when an annotation of the input names an authority other than UNIMOD,
\* the run ends in the fatal error, it never gets to the report, and no row
\* of an output table is written
C3_AbortsOnOtherAuthority ==
  OtherAuthorityNamed =>
    /\ NoRowWritten
    /\ pc \notin {"report", "done"}
    /\ pc = "failed" => exc = FatalError

TerminusPositions == {"Protein N-term", "Protein C-term", "Any N-term", "Any C-term"}

\* the position without a leading "Any "
BarePosition(pp) == IF StartsWith(pp, "Any ") THEN SubSeq(pp, 5, Len(pp)) ELSE pp

\* the descriptor of one target site at a terminus position
TerminusDescriptor(name, pp, site) ==
  IF site \in {"N-term", "C-term"}
  THEN name \o " (" \o BarePosition(pp) \o ")"
  ELSE name \o " (" \o BarePosition(pp) \o " " \o site \o ")"

\* the descriptors of an annotation with a terminus position and a TA tag,
\* one per target site
TerminusDescriptors(m) ==
  [i \in 1..Len(Split(TagValue("TA=", m), ",")) |->
     TerminusDescriptor(ModName(m), TagValue("PP=", m), Split(TagValue("TA=", m), ",")[i])]

\* an annotation of UNIMOD with a TA tag and a PP tag, wherever it stands,
\* that names a terminus position
AtTerminus(m) ==
  IsUnimod(m) /\ HasTag("TA=", m) /\ TagValue("PP=", m) \in TerminusPositions

RECURSIVE AllTerminusDescriptors(_)
AllTerminusDescriptors(sdrf_mods) ==
  IF sdrf_mods = <<>> THEN <<>>
  ELSE TerminusDescriptors(Head(sdrf_mods)) \o AllTerminusDescriptors(Tail(sdrf_mods))

\* C4: a call of openms_ify_mods on annotations that all have a TA tag and a
\* PP tag with a terminus position returns, for each of them, one descriptor
\* per target site: "name (pos)" for the site N-term or C-term and
\* "name (pos site)" otherwise, pos the position without a leading "Any "
C4_TerminusDescriptors ==
  (/\ pc # "call"
   /\ call.sdrf_mods # <<>>
   /\ \A i \in 1..Len(call.sdrf_mods) : AtTerminus(call.sdrf_mods[i]))
  => /\ pc = "returned"
     /\ call.ret = Join(",", AllTerminusDescriptors(call.sdrf_mods))

\* the position of an annotation: its PP value, "Anywhere" without a PP tag
PositionOf(m) == IF HasTag("PP=", m) THEN TagValue("PP=", m) ELSE "Anywhere"

\* an annotation without a TA tag whose position names no terminus
WithoutSite(m) ==
  /\ IsUnimod(m)
  /\ ~HasTag("TA=", m)
  /\ ~Contains(PositionOf(m), "C-term")
  /\ ~Contains(PositionOf(m), "N-term")

\* the annotations of a list that have a site
WithSite(sdrf_mods) == LET Sited(m) == ~WithoutSite(m) IN SelectSeq(sdrf_mods, Sited)

\* C5: a call of openms_ify_mods on a list with an annotation that has no TA
\* tag and no terminus in its position returns (it does not raise), counts a
\* warning, and returns what the call on the list without such annotations
\* returns
C5_DroppedWithoutSite ==
  (/\ pc # "call"
   /\ \E i \in 1..Len(call.sdrf_mods) : WithoutSite(call.sdrf_mods[i])
   /\ OpenmsIfyMods(WithSite(call.sdrf_mods), <<>>).exc = "")
  => /\ pc = "returned"
     /\ call.ret = OpenmsIfyMods(WithSite(call.sdrf_mods), <<>>).value
     /\ WarnCount(warnings, W_Skip) >= 1

(***************************************************************************)
(* Conditions and columns as the properties read them                      *)
(***************************************************************************)

AllEmpty(values) == \A i \in 1..Len(values) : values[i] = ""

Separator == "|"

Sentinel == "none"

\* the condition of a row: the factor values joined unless all are empty,
\* else the characteristic values joined unless all are empty, else the
\* sentinel
ConditionOf(row, factor_columns, characteristic_columns) ==
  IF ~AllEmpty(Cells(row, factor_columns))
  THEN Join(Separator, Cells(row, factor_columns))
  ELSE IF ~AllEmpty(Cells(row, characteristic_columns))
  THEN Join(Separator, Cells(row, characteristic_columns))
  ELSE Sentinel

\* the warnings counted with it: none, or one of the two, once
ConditionWarnings(row, factor_columns, characteristic_columns) ==
  IF ~AllEmpty(Cells(row, factor_columns)) THEN <<>>
  ELSE IF ~AllEmpty(Cells(row, characteristic_columns))
  THEN <<[k |-> W_CharAsFactor, v |-> 1]>>
  ELSE <<[k |-> W_Dummy, v |-> 1]>>

\* C6: combine_factors_to_conditions returns the factor values joined when
\* not all are empty, else the characteristic values joined with the
\* characteristics warning counted once, else the sentinel with the dummy
\* warning counted once; called again on the row it returns the same string
C6_ConditionDerived ==
  /\ pc \in {"returned", "returned again"} =>
       call.ret = ConditionOf(call.row, call.factor_cols, call.characteristics_cols)
  /\ pc = "returned" =>
       warnings = ConditionWarnings(call.row, call.factor_cols, call.characteristics_cols)
  /\ pc = "returned again" => call.again = call.ret

\* the derivation of the condition of input row i took the sentinel
SentinelUsed(i) ==
  /\ split_by_columns = ""
  /\ NoFactors(Join(Separator, Cells(sdrf.rows[i], factor_cols)))
  /\ NoFactors(Join(Separator, Cells(sdrf.rows[i], characteristics_cols)))

\* the condition a design row of input row i is to carry, sample its sample id
ConditionWritten(i, sample) ==
  IF SentinelUsed(i) THEN sample ELSE sdrf.rows[i][C_Conditions]

\* the rows of the one-table design files written, with and without the
\* Sample column
OneTableRows(width) ==
  { line \in DesignRows : Len(line) = width }

\* the sample rows of the two-table design files written
SampleRowsWritten ==
  UNION { Range(SampleTable(files[k].v)) :
            k \in {j \in 1..Len(files) : IsDesignFile(files[j].k)} }

\* C7: the MSstats_Condition of a design row is the derived condition of its
\* file as it is, and the sample id exactly when the derivation took the
\* sentinel; a sample row carries the condition of a file of its sample
C7_ConditionUnchanged ==
  /\ \A line \in OneTableRows(7) :
       line[6] = ConditionWritten(InputRowOf(line), line[5])
  /\ \A line \in OneTableRows(6) :
       line[5] = ConditionWritten(InputRowOf(line), line[6])
  /\ \A line \in SampleRowsWritten :
       \E i \in 1..Len(sdrf.rows) :
         /\ ToString(WrittenGroup(i)) = line[1]
         /\ line[2] = ConditionWritten(i, line[1])

\* a characteristic column is kept when it differs from every factor column
\* in some row
Kept(c, rows, factor_columns) ==
  \A i \in 1..Len(factor_columns) :
    \E r \in 1..Len(rows) : rows[r][c] # rows[r][factor_columns[i]]

\* the characteristic columns kept, in their order
KeptColumns(characteristic_columns, rows, factor_columns) ==
  LET Keep(c) == Kept(c, rows, factor_columns)
  IN  SelectSeq(characteristic_columns, Keep)

\* C8: removeRedundantCharacteristics returns, for every list of
\* characteristic columns and every list of factor columns, the empty one
\* too, the characteristic columns in their order without those that equal a
\* factor column row for row
C8_RedundantRemoved ==
  pc # "call" =>
    /\ pc = "returned"
    /\ call.ret[1] = KeptColumns(call.characteristics_cols, call.rows, call.factor_cols)

(***************************************************************************)
(* The optional fields as the properties read them                         *)
(***************************************************************************)

OptionalFields ==
  <<C_PcTol, C_FragTol, C_Diss, C_TechRep, C_Fraction>>

\* a number: digits, with a decimal point or without
IsNumber(s) == s # "" /\ \A i \in 1..Len(s) : IndexIn(Ch(s, i), "0123456789.") # 0

\* a tolerance reads "<number> <unit>"
WellFormedTolerance(v) ==
  /\ Len(Split(v, " ")) = 2
  /\ IsNumber(Split(v, " ")[1])
  /\ Split(v, " ")[2] \in {"ppm", "Da"}

WellFormed(field, v) ==
  CASE field \in {C_PcTol, C_FragTol} -> WellFormedTolerance(v)
    [] field = C_Diss -> HasTag("NT=", v)
    [] field \in {C_TechRep, C_Fraction} -> IsInt(v)

\* the field is missing from the row or its value is malformed
Anomalous(field, row) == ~HasCol(row, field) \/ ~WellFormed(field, row[field])

\* the documented default of the field is what is stored for the file
DefaultStored(field, raw) ==
  CASE field = C_PcTol ->
         DictGet(f2c.file2pctol, raw) = "10" /\ DictGet(f2c.file2pctolunit, raw) = "ppm"
    [] field = C_FragTol ->
         DictGet(f2c.file2fragtol, raw) = "20" /\ DictGet(f2c.file2fragtolunit, raw) = "ppm"
    [] field = C_Diss -> DictGet(f2c.file2diss, raw) = "HCD"
    [] field = C_TechRep -> DictGet(f2c.file2technical_rep, raw) = "1"
    [] field = C_Fraction -> DictGet(f2c.file2fraction, raw) = "1"

\* the rows the extraction has gone through
RowsExtracted == 1..(row_index - 1)

\* the anomalies of the optional fields in the rows gone through
AnomaliesExtracted ==
  { <<i, k>> \in RowsExtracted \X (1..Len(OptionalFields)) :
      Anomalous(OptionalFields[k], sdrf.rows[i]) }

RECURSIVE CountsAddedUp(_, _)
\* the counts of the first n warnings, those of the set others left out
CountsAddedUp(n, others) ==
  IF n = 0 THEN 0
  ELSE CountsAddedUp(n - 1, others)
       + (IF warnings[n].k \in others THEN 0 ELSE warnings[n].v)

\* the warnings counted for optional fields: all but those of the
\* modifications and of the conditions
FieldWarningsCounted ==
  CountsAddedUp(Len(warnings), {W_NoTA, W_Skip, W_Dummy, W_CharAsFactor})

\* the run ended in the optional fields of the row it was at
EndedInOptionalField ==
  /\ pc = "failed"
  /\ row_index <= Len(sdrf.rows)
  /\ exc \in {"IndexError", "AttributeError", "ValueError"}
  /\ \E k \in 1..Len(OptionalFields) : Anomalous(OptionalFields[k], sdrf.rows[row_index])

\* C9: an optional field that is missing or malformed in a row has its
\* default stored for the file, a warning is counted for the occurrence, and
\* the extraction goes on
C9_DefaultsWithWarning ==
  /\ \A <<i, k>> \in AnomaliesExtracted :
       DefaultStored(OptionalFields[k], sdrf.rows[i][C_DataFile])
  /\ FieldWarningsCounted >= Cardinality(AnomaliesExtracted)
  /\ ~EndedInOptionalField

(***************************************************************************)
(* The run to its end                                                      *)
(***************************************************************************)

\* the scheduling of a run: a call that can take a step takes it
SpecToTheEnd == Spec /\ WF_vars(Next)

\* every warning is printed with its count, and then the status line with
\* the number of warnings
Reported ==
  /\ pc = "done"
  /\ Len(stdout) = Len(warnings) + 1
  /\ \A k \in 1..Len(warnings) :
       /\ Contains(stdout[k], warnings[k].k)
       /\ Contains(stdout[k], " " \o ToString(warnings[k].v) \o " ")
  /\ Contains(stdout[Len(stdout)], "(WARNINGS=" \o ToString(Len(warnings)) \o ")")

\* C10: a run on an input whose annotations all carry the UNIMOD authority
\* gets to the final report, where every warning is printed with its count
\* and the status line with the number of warnings
C10_RunCompletes == ~OtherAuthorityNamed ~> Reported

(***************************************************************************)
(* Several runs of openms_convert in one process                           *)
(***************************************************************************)

MaxRuns == 2

\* a table of two files of one source
TwoFileTable ==
  Table(AllColumns,
        << FullRow(1, "A", "1", "ctrl", "liver"), FullRow(2, "A", "2", "drug", "brain") >>)

\* a table of one file, of a treatment of its own
OneFileTable ==
  Table(AllColumns, << FullRow(1, "B", "1", "heat", "liver") >>)

\* the tables the runs of one process are made on
RunTables ==
  { TwoFileTable, OneFileTable, Unusual({}, <<>>, Usual), Unusual(OptionalColumns, <<>>, Usual) }

\* the runs made before the one under way: call lists them, each with
\* whether the next run was made on the same OpenMS object
RunsBefore == Len(call)

\* The process calls openms_convert once more, after a run that ended, on the
\* same OpenMS object or on a new one.  The locals of the call start anew;
\* self.warnings is that of the object; the dicts of FileToColumnEntries are
\* attributes of the class, and f2c = FileToColumnEntries() binds no new ones.
RunAgain ==
  /\ pc \in {"done", "failed"}
  /\ RunsBefore + 1 < MaxRuns
  /\ \E table \in RunTables, split \in SplitArguments, same_object \in BOOLEAN :
       /\ sdrf' = table
       /\ split_by_columns' = split
       /\ warnings' = IF same_object THEN warnings ELSE <<>>
       /\ call' = Append(call, [same_object |-> same_object])
  /\ pc' = "start"
  /\ row_index' = 1
  /\ mod_cols' = <<>>
  /\ factor_cols' = <<>>
  /\ characteristics_cols' = <<>>
  /\ source_name_list' = <<>>
  /\ source_name2n_reps' = <<>>
  /\ conditions' = <<>>
  /\ files' = <<>>
  /\ stdout' = <<>>
  /\ exc' = ""
  /\ UNCHANGED f2c

InitRuns ==
  \E table \in RunTables, split \in SplitArguments : Entered(table, split)

NextRuns == SelectColumns \/ ExtractRow \/ WriteOutputs \/ Report \/ RunAgain

SpecRuns == InitRuns /\ [][NextRuns]_vars

(***************************************************************************)
(* A run as the first one of a fresh process, for comparison               *)
(***************************************************************************)

\* what the extraction loop starts from in a fresh process
FreshStart ==
  [exc |-> "", f2c |-> EmptyF2c, warnings |-> <<>>, source_name_list |-> <<>>,
   source_name2n_reps |-> <<>>, combined |-> ""]

\* row i of the input as it was read, without the condition added to it
RowAsRead(i) == [c \in DOMAIN sdrf.rows[i] \ {C_Conditions} |-> sdrf.rows[i][c]]

RECURSIVE ExtractedFrom(_, _)
\* the extraction loop over the rows i.. of the input of the run under way,
\* with the columns this run selected, from the state st on
ExtractedFrom(i, st) ==
  IF i > Len(sdrf.rows) \/ st.exc # "" THEN st
  ELSE ExtractedFrom(i + 1,
                     ExtractRowBody([st EXCEPT !.combined = ""], RowAsRead(i), mod_cols,
                                    split_by_columns # "", factor_cols,
                                    characteristics_cols))

\* the conditions a run that extracted to st finds
ConditionsFound(st) == Distinct(DictValues(st.f2c.file2combined_factors))

\* the files a run that extracted to st writes, under some choice of format
WritesAs(st) ==
  \E one_table \in BOOLEAN, legacy \in BOOLEAN, keep_raw \in BOOLEAN :
    files = OutputFiles(split_by_columns # "", ConditionsFound(st), sdrf.rows, st.f2c,
                        st.source_name_list, st.source_name2n_reps,
                        one_table, legacy, keep_raw)

\* the distinct conditions of the rows of the input of the run under way
ConditionsOfInput == Distinct(Column(sdrf.rows, C_Conditions))

\* the names of the files written
FileNames == [k \in 1..Len(files) |-> files[k].k]

\* in partitioned mode one numbered pair of files per condition of the input
PairPerCondition ==
  split_by_columns # "" =>
    /\ Len(files) = 2 * Len(ConditionsOfInput)
    /\ \A n \in 1..Len(ConditionsOfInput) :
         /\ FileNames[2 * n - 1] = "openms.tsv." \o ToString(n - 1)
         /\ FileNames[2 * n] = "experimental_design.tsv." \o ToString(n - 1)

\* the run under way has written and counted what a first run that
\* extracted to st writes and counts
SameAs(st) ==
  /\ conditions = ConditionsFound(st)
  /\ WritesAs(st)
  /\ PairPerCondition
  /\ warnings = st.warnings
  /\ pc = "done" => stdout = ReportWarnings(st.warnings, SdrfFile)

\* C11: a run that has written its files, whichever runs the process made
\* before it, has found the conditions, written the files and their rows (in
\* partitioned mode one numbered pair per condition of its input) and counted
\* the warnings that the same run finds, writes and counts as the first run
\* of a fresh process
C11_RunsIsolated ==
  pc \in {"report", "done"} => SameAs(ExtractedFrom(1, FreshStart))

====
